---- MODULE Spec2Model ----
(***************************************************************************)
(* derby-validator (src/lib/index.js): the field validation engine.        *)
(*                                                                         *)
(* One Validator over three declared fields:                               *)
(*   a   : group "A", validations  required, callable m1, callable m2      *)
(*   b   : group "A", validations  regex /^x$/ (fmt)                       *)
(*   c.n : a nested path; no group, no validations                         *)
(* The origin is an entity with these keys, an id and a key c.m that no    *)
(* field declares ("entity"), a scoped model whose entity does not exist   *)
(* yet ("new"), or is not passed at all ("none"); the fields declare the   *)
(* default ''.                                                             *)
(* "required" is the default table's callable, which settles inside the    *)
(* call; the other callables are user rules that settle later, with an     *)
(* outcome of their own choosing.                                          *)
(*                                                                         *)
(* A value that is absent in the store (undefined) is modelled by the      *)
(* falsy value of its type: FALSE for a flag, <<>> for messages, 0 for     *)
(* serial, "none" for invalidAt.  groups.<g>.isValid keeps "undefined",    *)
(* because the code compares it with == against a boolean, and so do the   *)
(* values of the fields and of the origin, which the code compares with    *)
(* _.isEqual.                                                              *)
(***************************************************************************)
EXTENDS Integers, Sequences, FiniteSets, TLC

\* ---------------------------------------------------------------- bounds
MaxOps == 2         \* calls made to the validator's public operations

\* ------------------------------------------------- the constructor's input
Fields == {"a", "b", "c.n"}
FieldOrder == <<"a", "b", "c.n">>
Values == {"", "x"}
Undefined == "undefined"
OriginId == "i1"                    \* the id of the origin entity
IdValues == {"i2"}                  \* what a form writes to id.value
Modes == {"entity", "new", "none"}  \* the origin argument

\* the paths that hold a value: the declared fields and the keys that only
\* the origin has, id and c.m
Paths == Fields \cup {"id", "c.m"}
PathOrder == <<"a", "b", "c.n", "c.m", "id">>
Segments ==
  [p \in Paths |-> CASE p = "c.n" -> <<"c", "n">>
                      [] p = "c.m" -> <<"c", "m">>
                      [] OTHER -> <<p>>]
\* the entries that the validator keeps at the top of its model
Bookkeeping == {"hasChangedFields", "hasInvalidFields", "groups"}
Groups == {"A", "default"}
DefaultMessage == "Something is wrong with this field."

Validations ==
  [f \in Fields |->
     CASE f = "a" -> << [kind |-> "required", message |-> "Required field"],
                        [kind |-> "callable", message |-> "m1"],
                        [kind |-> "callable", message |-> "m2"] >>
       [] f = "b" -> << [kind |-> "regex", message |-> "fmt"] >>
       [] OTHER   -> << >>]

HasValidations(f) == f \in {"a", "b"}
\* "" : no group declared
FieldGroup == [f \in Fields |-> IF f \in {"a", "b"} THEN "A" ELSE ""]
FieldDefault == [f \in Fields |-> ""]
InitOrigin ==
  [p \in Paths |-> CASE p \in {"a", "b", "c.m"} -> "x"
                      [] p = "id" -> OriginId
                      [] OTHER -> ""]
NoOrigin == [p \in Paths |-> Undefined]

RuleIdx(f) == 1..Len(Validations[f])
InvalidResults == {"none", "at"}     \* "none" : settle(valid) with no marker

\* st is the store: the validator's scoped model, the origin, and the
\* async.parallel calls in flight.  ops counts the calls made.
VARIABLES st, ops

vars == <<st, ops>>

value == st.value                          \* <field>.value
isValid == st.isValid                      \* <field>.isValid
isInvalid == st.isInvalid                  \* <field>.isInvalid
messages == st.messages                    \* <field>.messages
invalidAt == st.invalidAt                  \* <field>.invalidAt
validating == st.validating                \* <field>.validating
serial == st.serial                        \* <field>.serial
hasChanged == st.hasChanged                \* <field>.hasChanged
hasInvalidFields == st.hasInvalidFields
hasChangedFields == st.hasChangedFields
groups == st.groups                        \* groups.<group>.isValid
origin == st.origin                        \* the origin entity
mode == st.mode                            \* how the origin was passed
rounds == st.rounds                        \* rounds[f][sr]: call sr of _validate(f)
runs == st.runs                            \* runs[k]: call k of validateAll
nruns == st.nruns                          \* validateAll calls made
touched == st.touched                      \* validity written since _setup
committedId == st.committedId              \* id.value when commit last wrote
adds == st.adds                            \* calls of origin.parent().add
setEachs == st.setEachs                    \* calls of origin.setEach
entries == st.entries                      \* undeclared paths with an entry
setupSerial == st.setupSerial              \* <field>.serial when _setup ran

\* A handler is a composition of the calls it makes on the store.
Cur == st

Become(s) == st' = s

NoRound == [pending |-> {}, failed |-> {}, joined |-> FALSE,
            result |-> "none", owner |-> 0]
NoRun == [waiting |-> {}, done |-> FALSE, calls |-> 0, result |-> "none",
          commit |-> FALSE]

Bool(b) == IF b THEN "true" ELSE "false"

\* ------------------------------------------------------------ the rules
\* defaultValidations.required and the regular expression /^x$/
RuleTest(kind, v) ==
  IF kind = "required" THEN v # "" ELSE v = "x"

\* A rule whose outcome is known before _check's task returns.
IsSync(rule) == rule.kind \in {"required", "regex"}

\* ------------------------------------------------- the change listener
GroupOf(f) == IF FieldGroup[f] = "" THEN "default" ELSE FieldGroup[f]

\* currentlyValid == value, for currentlyValid possibly undefined
LooseEq(g, v) == g = Bool(v)

SetGroupValidity_noPoison(s, f, v) ==
  LET g == GroupOf(f)
      allValid == \A k \in Fields : GroupOf(k) # g \/ ~s.isInvalid[k]
  IN  IF LooseEq(s.groups[g], v) THEN s
      ELSE IF ~allValid THEN s
      ELSE [s EXCEPT !.groups[g] = "true"]

SetGroupValidity(s, f, v) ==
  LET g == GroupOf(f)
      s1 == IF ~v THEN [s EXCEPT !.groups[g] = "false"] ELSE s
      allValid == \A k \in Fields : GroupOf(k) # g \/ ~s.isInvalid[k]
  IN  IF LooseEq(s.groups[g], v) THEN s
      ELSE IF ~allValid THEN s1
      ELSE [s1 EXCEPT !.groups[g] = "true"]

\* the path has an entry in the validator's model
Present(s, p) ==
  p \in Fields \/ s.value[p] # Undefined \/ p \in s.entries

IsPrefix(q, segs) == Len(q) <= Len(segs) /\ SubSeq(segs, 1, Len(q)) = q

\* find(collection, 'hasChanged') on the subtree at prefix: an entry that owns
\* a value answers with its hasChanged, any other object is searched in turn
RECURSIVE FindChanged(_, _)
FindChanged(s, prefix) ==
  \E p \in Paths :
     /\ Present(s, p)
     /\ IsPrefix(prefix, Segments[p])
     /\ Len(Segments[p]) > Len(prefix)
     /\ LET q == SubSeq(Segments[p], 1, Len(prefix) + 1)
        IN  IF \E r \in Paths : Present(s, r) /\ Segments[r] = q
            THEN \E r \in Paths :
                    Present(s, r) /\ Segments[r] = q /\ s.hasChanged[r]
            ELSE FindChanged(s, q)

SetChangedState_topLevel(s) ==
  [s EXCEPT !.hasChangedFields =
      \E k \in Paths : Len(Segments[k]) = 1 /\ s.hasChanged[k]]

SetChangedState(s) ==
  [s EXCEPT !.hasChangedFields = FindChanged(s, << >>)]

\* startValue: the origin is read when the value changes; without an origin
\* the lookup is _.get(fields, field + 'default'), a key no field spec has
StartValue(s, p) == IF s.mode # "none" THEN s.origin[p] ELSE Undefined

\* the listener's branch for a path <p>.value
OnValueChange(s, p) ==
  SetChangedState([s EXCEPT !.hasChanged[p] = (s.value[p] # StartValue(s, p))])

\* _.find(model.get(), {isInvalid: true}) looks at the top-level entries
SetState(s) ==
  [s EXCEPT !.hasInvalidFields =
      \E k \in Fields : Len(Segments[k]) = 1 /\ s.isInvalid[k]]

SetValidity_onlyValid(s, f, validity) ==
  LET s2 == SetGroupValidity([s EXCEPT !.isValid[f] = validity], f, validity)
      s3 == IF validity THEN [s2 EXCEPT !.invalidAt[f] = "none"] ELSE s2
  IN  SetState([s3 EXCEPT !.touched[f] = TRUE])

SetValidity(s, f, validity) ==
  LET s1 == [s EXCEPT !.isInvalid[f] = ~validity]
      s2 == SetGroupValidity([s1 EXCEPT !.isValid[f] = validity], f, validity)
      s3 == IF validity THEN [s2 EXCEPT !.invalidAt[f] = "none"] ELSE s2
  IN  SetState([s3 EXCEPT !.touched[f] = TRUE])

\* ------------------------------------------------------------- commit
Exclude(noId) ==
  {"hasChangedFields", "hasInvalidFields", "groups"}
     \cup (IF noId THEN {"id"} ELSE {})

\* the key under which get() meets an entry of the model
LeafKey(q) == IF q \in Paths THEN Segments[q][Len(Segments[q])] ELSE q

\* field.value of an entry: a bookkeeping entry has no value
FieldValue(s, q) == IF q \in Paths THEN s.value[q] ELSE Undefined

\* the entries get() visits: it descends where the field tree has a
\* subtree and takes everything else as a leaf
ModelLeaves(s) == {q \in Paths : Present(s, q)} \cup Bookkeeping

GetValues_withId(s, noId) ==
  [p \in {q \in ModelLeaves(s) : LeafKey(q) \notin Exclude(FALSE)}
     |-> FieldValue(s, p)]

GetValues_raw(s, noId) ==
  [p \in ModelLeaves(s) |-> FieldValue(s, p)]

\* the value of every leaf of the validator's model whose key is not excluded
GetValues(s, noId) ==
  [p \in {q \in ModelLeaves(s) : LeafKey(q) \notin Exclude(noId)}
     |-> FieldValue(s, p)]

\* origin.setEach(values) on an entity that has an id; otherwise
\* origin.parent().add(values) with the id reserved at construction
CommitToModel_alwaysAdds(s) ==
  LET values == GetValues(s, TRUE)
      s1 == [s EXCEPT !.committedId = s.value["id"]]
  IN  [s1 EXCEPT !.adds = @ + 1,
                 !.origin =
                    [p \in Paths |-> IF p = "id" THEN OriginId
                                     ELSE IF p \in DOMAIN values THEN values[p]
                                     ELSE Undefined]]

\* setEach sets every top-level key of values to the value it has there: a
\* key below it that values does not have is gone with the old subtree
CommitToModel(s) ==
  LET values == GetValues(s, TRUE)
      s1 == [s EXCEPT !.committedId = s.value["id"]]
      topKeys == {Segments[q][1] : q \in DOMAIN values}
  IN  IF s.origin["id"] # Undefined
      THEN [s1 EXCEPT !.setEachs = @ + 1,
                      !.origin =
              [p \in Paths |-> IF p \in DOMAIN values THEN values[p]
                               ELSE IF Segments[p][1] \in topKeys
                               THEN Undefined
                               ELSE s.origin[p]]]
      ELSE [s1 EXCEPT !.adds = @ + 1,
                      !.origin =
              [p \in Paths |-> IF p = "id" THEN OriginId
                               ELSE IF p \in DOMAIN values THEN values[p]
                               ELSE Undefined]]

\* -------------------------------------------- validateAll's async.parallel
\* The final callback of async.parallel runs once.
RunCallbackOpen(run) == ~run.done

RunCallback_commitAlways(s, k, valid) ==
  LET s1 == [s EXCEPT !.runs[k].done = TRUE,
                      !.runs[k].calls = @ + 1,
                      !.runs[k].result = Bool(valid)]
  IN  IF s.runs[k].commit THEN CommitToModel(s1) ELSE s1

RunCallback(s, k, valid) ==
  LET s1 == [s EXCEPT !.runs[k].done = TRUE,
                      !.runs[k].calls = @ + 1,
                      !.runs[k].result = Bool(valid)]
  IN  IF valid /\ s.runs[k].commit THEN CommitToModel(s1) ELSE s1

\* every task of validateAll has called back without an error
RunAllDone_first(run) == TRUE

RunAllDone(run) == run.waiting = {}

\* asyncCallback(valid ? null : true, valid) of the task of field f
Deliver(s, f, k, valid) ==
  IF k = 0 THEN s
  ELSE IF ~valid
       THEN IF RunCallbackOpen(s.runs[k]) THEN RunCallback(s, k, FALSE) ELSE s
       ELSE LET s1 == [s EXCEPT !.runs[k].waiting = @ \ {f}]
            IN  IF RunAllDone(s1.runs[k]) /\ RunCallbackOpen(s1.runs[k])
                THEN RunCallback(s1, k, TRUE) ELSE s1

\* ---------------------------------------------- _validate's async.parallel
Join_clearsAlways(s, f, sr, valid) ==
  LET s1 == SetValidity(s, f, valid)
      s2 == [s1 EXCEPT !.rounds[f][sr].joined = TRUE,
                       !.rounds[f][sr].result = Bool(valid)]
      s3 == Deliver(s2, f, s.rounds[f][sr].owner, valid)
  IN  [s3 EXCEPT !.validating[f] = FALSE]

\* the callback of async.parallel(validating, ...) in _validate
Join(s, f, sr, valid) ==
  LET s1 == SetValidity(s, f, valid)
      s2 == [s1 EXCEPT !.rounds[f][sr].joined = TRUE,
                       !.rounds[f][sr].result = Bool(valid)]
      s3 == Deliver(s2, f, s.rounds[f][sr].owner, valid)
  IN  IF sr = s3.serial[f] THEN [s3 EXCEPT !.validating[f] = FALSE] ELSE s3

\* every task of _validate has called back without an error
AllDone_first(r) == TRUE

AllDone(r) == r.pending = {}

TaskDone_eager(s, f, sr, err) ==
  LET r == s.rounds[f][sr]
  IN  IF ~r.joined THEN Join(s, f, sr, ~err) ELSE s

\* the callback that async.parallel hands to a task of round sr of f
TaskDone(s, f, sr, err) ==
  LET r == s.rounds[f][sr]
  IN  IF err
      THEN IF ~r.joined THEN Join(s, f, sr, FALSE) ELSE s
      ELSE IF AllDone(r) /\ ~r.joined THEN Join(s, f, sr, TRUE) ELSE s

IsCurrent_always(s, f, sr) == TRUE

IsCurrent(s, f, sr) == sr = s.serial[f]

\* the first argument of callback(current && valid ? null : true, valid)
TaskError(current, valid) == ~(current /\ valid)

SettleCallback_dropStale(s, f, sr, current, valid) ==
  IF ~current THEN s ELSE TaskDone(s, f, sr, TaskError(current, valid))

\* callback(current && valid ? null : true, valid)
SettleCallback(s, f, sr, current, valid) ==
  TaskDone(s, f, sr, TaskError(current, valid))

\* setValidity(valid, invalidResult) of rule i of round sr of field f
RuleSettles(s, f, sr, i, valid, invalidResult) ==
  LET current == IsCurrent(s, f, sr)
      s1 == IF current /\ ~valid
            THEN [s EXCEPT !.messages[f] = Append(@, Validations[f][i].message)]
            ELSE s
      s2 == IF current /\ invalidResult # "none"
            THEN [s1 EXCEPT !.invalidAt[f] = invalidResult] ELSE s1
      s3 == [s2 EXCEPT !.rounds[f][sr].pending = @ \ {i},
                       !.rounds[f][sr].failed =
                          IF valid THEN @ ELSE @ \cup {i}]
  IN  SettleCallback(s3, f, sr, current, valid)

Increment(n) == n + 1

\* the tasks of async.parallel are started in declaration order; a task of a
\* synchronous rule settles before the next one is started
RECURSIVE RunTasks(_, _, _, _, _)
RunTasks(s, f, sr, v, i) ==
  IF i > Len(Validations[f]) THEN s
  ELSE LET rule == Validations[f][i]
       IN  IF IsSync(rule)
           THEN RunTasks(RuleSettles(s, f, sr, i, RuleTest(rule.kind, v),
                                     "none"),
                         f, sr, v, i + 1)
           ELSE RunTasks(s, f, sr, v, i + 1)

Validate_clearsAll(s, f, k) ==
  LET sr == Increment(s.serial[f])
      s1 == [s EXCEPT !.messages = [q \in Fields |-> << >>],
                      !.validating[f] = TRUE,
                      !.serial[f] = sr]
  IN  IF ~HasValidations(f)
      THEN [s1 EXCEPT !.rounds[f][sr].result = "true"]
      ELSE RunTasks([s1 EXCEPT !.rounds[f][sr] =
                        [pending |-> RuleIdx(f), failed |-> {},
                         joined |-> FALSE, result |-> "none", owner |-> k]],
                    f, sr, s.value[f], 1)

Validate(s, f, k) ==
  LET sr == Increment(s.serial[f])
      s1 == [s EXCEPT !.messages[f] = << >>,
                      !.validating[f] = TRUE,
                      !.serial[f] = sr]
  IN  IF ~HasValidations(f)
      THEN [s1 EXCEPT !.rounds[f][sr].result = "true"]
      ELSE RunTasks([s1 EXCEPT !.rounds[f][sr] =
                        [pending |-> RuleIdx(f), failed |-> {},
                         joined |-> FALSE, result |-> "none", owner |-> k]],
                    f, sr, s.value[f], 1)

\* ---------------------------------------------------------- validateAll
RECURSIVE StartFields(_, _, _)
StartFields(s, k, i) ==
  IF i > Len(FieldOrder) THEN s
  ELSE LET f == FieldOrder[i]
       IN  IF ~HasValidations(f) THEN StartFields(s, k, i + 1)
           ELSE StartFields(Validate(s, f, k), k, i + 1)

ValidateAll(s, commit) ==
  LET k == s.nruns + 1
      tasks == {f \in Fields : HasValidations(f)}
      s1 == [s EXCEPT !.nruns = k,
                      !.runs[k] = [waiting |-> tasks, done |-> FALSE,
                                   calls |-> 0, result |-> "none",
                                   commit |-> commit]]
  IN  IF tasks = {} THEN RunCallback(s1, k, TRUE)
      ELSE StartFields(s1, k, 1)

\* ------------------------------------------------------------- _setup
AddFieldProperties_replace(s, f) ==
  LET s1 == OnValueChange([s EXCEPT !.value[f] = FieldDefault[f],
                                    !.serial[f] = 0], f)
  IN  IF ~HasValidations(f) THEN s1
      ELSE LET s2 == SetGroupValidity([s1 EXCEPT !.isValid[f] = FALSE],
                                      f, FALSE)
           IN  [s2 EXCEPT !.isInvalid[f] = FALSE, !.touched[f] = FALSE]

AddFieldProperties(s, f) ==
  LET s1 == OnValueChange([s EXCEPT !.value[f] = FieldDefault[f]], f)
  IN  IF ~HasValidations(f) THEN s1
      ELSE LET s2 == SetGroupValidity([s1 EXCEPT !.isValid[f] = FALSE],
                                      f, FALSE)
           IN  [s2 EXCEPT !.isInvalid[f] = FALSE, !.touched[f] = FALSE]

\* a key the origin does not have is not copied
AddFromOrigin(s, p) ==
  IF s.origin[p] = Undefined THEN s
  ELSE OnValueChange([s EXCEPT !.value[p] = s.origin[p]], p)

RECURSIVE SetupFields(_, _)
SetupFields(s, i) ==
  IF i > Len(FieldOrder) THEN s
  ELSE SetupFields(AddFieldProperties(s, FieldOrder[i]), i + 1)

RECURSIVE CopyOrigin(_, _)
CopyOrigin(s, i) ==
  IF i > Len(PathOrder) THEN s
  ELSE CopyOrigin(AddFromOrigin(s, PathOrder[i]), i + 1)

Setup_validates(s) ==
  LET s0 == [s EXCEPT !.setupSerial = s.serial]
      s1 == IF s.mode = "none" THEN SetupFields(s0, 1)
            ELSE CopyOrigin(SetupFields(s0, 1), 1)
  IN  [s1 EXCEPT !.isValid =
         [f \in Fields |->
            /\ HasValidations(f)
            /\ RuleTest(Validations[f][1].kind, s1.value[f])]]

Setup(s) ==
  LET s0 == [s EXCEPT !.setupSerial = s.serial]
  IN  IF s.mode = "none" THEN SetupFields(s0, 1)
      ELSE CopyOrigin(SetupFields(s0, 1), 1)

SetInvalid(s, f, message) ==
  LET s1 == SetValidity(s, f, FALSE)
  IN  [s1 EXCEPT !.messages[f] =
         Append(@, IF message = "" THEN DefaultMessage ELSE message)]

\* ------------------------------------------------------------- the state
InitStore(m) ==
          [mode |-> m,
           origin |-> IF m = "entity" THEN InitOrigin ELSE NoOrigin,
           value |-> IF m = "entity" THEN InitOrigin
                     ELSE [p \in Paths |-> IF p \in Fields THEN FieldDefault[p]
                                           ELSE Undefined],
           isValid |-> [f \in Fields |-> FALSE],
           isInvalid |-> [f \in Fields |-> FALSE],
           messages |-> [f \in Fields |-> << >>],
           invalidAt |-> [f \in Fields |-> "none"],
           validating |-> [f \in Fields |-> FALSE],
           serial |-> [f \in Fields |-> 0],
           hasChanged |-> [p \in Paths |-> FALSE],
           hasInvalidFields |-> FALSE,
           hasChangedFields |-> FALSE,
           groups |-> [g \in Groups |-> "undefined"],
           rounds |-> [f \in Fields |-> [sr \in 1..MaxOps |-> NoRound]],
           runs |-> [k \in 1..MaxOps |-> NoRun],
           nruns |-> 0,
           touched |-> [f \in Fields |-> FALSE],
           committedId |-> "none",
           adds |-> 0,
           setEachs |-> 0,
           entries |-> {},
           setupSerial |-> [f \in Fields |-> 0]]

\* a validator constructed on an existing origin entity
Init == st = InitStore("entity") /\ ops = 0

\* a validator constructed with any of the origin arguments
FormInit == \E m \in Modes : st = InitStore(m) /\ ops = 0

\* one more call of a public operation
Call == ops < MaxOps /\ ops' = ops + 1

\* validator.validate(f, callback)
DoValidate(f) ==
  /\ Call
  /\ Become(Validate(Cur, f, 0))

\* validator.validateAll(callback)
DoValidateAll ==
  /\ Call
  /\ Become(ValidateAll(Cur, FALSE))

\* a callable rule calls settle(valid, invalidResult)
DoSettle(f, sr, i) ==
  /\ sr \in 1..serial[f]
  /\ i \in rounds[f][sr].pending
  /\ \E valid \in BOOLEAN, invalidResult \in InvalidResults :
        Become(RuleSettles(Cur, f, sr, i, valid, invalidResult))
  /\ UNCHANGED ops

\* validator.setInvalid(f, message); message "" : omitted
DoSetInvalid(f, message) ==
  /\ Call
  /\ Become(SetInvalid(Cur, f, message))

\* validator.reset()
DoReset == Call /\ Become(Setup(Cur))

\* the form writes <p>.value
DoSetValue(p, v) ==
  Call /\ Become(OnValueChange([Cur EXCEPT !.value[p] = v], p))

Commit_forceValidates(s, force) ==
  IF s.mode = "none" THEN s ELSE ValidateAll(s, TRUE)

Commit(s, force) ==
  IF s.mode = "none" THEN s
  ELSE IF force THEN CommitToModel(s)
  ELSE ValidateAll(s, TRUE)

\* validator.commit(force, callback)
DoCommit(force) ==
  /\ Call
  /\ Become(Commit(Cur, force))

Next ==
  \/ \E f \in Fields : DoValidate(f)
  \/ DoValidateAll
  \/ \E f \in Fields : \E sr \in 1..MaxOps : \E i \in RuleIdx(f) :
        DoSettle(f, sr, i)
  \/ \E f \in Fields : \E m \in {"", "forced"} : DoSetInvalid(f, m)
  \/ DoReset
  \/ \E force \in BOOLEAN : DoCommit(force)
  \/ \E f \in Fields : \E v \in Values : DoSetValue(f, v)
  \/ \E v \in IdValues : DoSetValue("id", v)

Spec == Init /\ [][Next]_vars

\* some outstanding rule settles
SettleSome ==
  \E f \in Fields : \E sr \in 1..MaxOps : \E i \in RuleIdx(f) :
     DoSettle(f, sr, i)

\* the validation engine alone: rounds are started and their rules settle
EngineNext ==
  \/ \E f \in Fields : DoValidate(f)
  \/ DoValidateAll
  \/ SettleSome

\* Every launched rule settles: a settle is the only step that takes a rule
\* out of the outstanding ones, and the calls that launch rules are bounded.
LiveSpec == Init /\ [][EngineNext]_vars /\ WF_vars(SettleSome)

\* the form and its origin: values are written, reset and committed, with
\* the validation that commit starts
FormNext ==
  \/ \E f \in Fields : \E v \in Values : DoSetValue(f, v)
  \/ \E v \in IdValues : DoSetValue("id", v)
  \/ DoReset
  \/ \E force \in BOOLEAN : DoCommit(force)
  \/ DoValidateAll
  \/ SettleSome

FormSpec == FormInit /\ [][FormNext]_vars

\* ------------------------------------------ outside the declared fields
\* an origin entity that has no key c.m when the validator is constructed
SparseOrigin == [InitOrigin EXCEPT !["c.m"] = Undefined]

OutsideInit ==
  /\ st = [InitStore("entity") EXCEPT !.origin = SparseOrigin,
                                      !.value = SparseOrigin]
  /\ ops = 0

\* somebody else writes a key of the origin entity; the validator's
\* listener is on its own model and does not hear it
DoOriginSet(p, v) ==
  /\ origin["id"] # Undefined
  /\ origin[p] # v
  /\ Become([Cur EXCEPT !.origin[p] = v])
  /\ UNCHANGED ops

\* _validate on a path that no field declares: what it writes under the
\* path makes an entry that holds no value
ValidatePath(s, p) == [s EXCEPT !.entries = @ \cup {p}]

\* validator.validate(p) with p not a declared field
DoValidatePath(p) ==
  /\ Call
  /\ Become(ValidatePath(Cur, p))

\* the validator next to what it does not own: keys of the origin written
\* by others, and paths that are not fields
OutsideNext ==
  \/ \E f \in Fields : \E v \in Values : DoSetValue(f, v)
  \/ \E force \in BOOLEAN : DoCommit(force)
  \/ SettleSome
  \/ DoOriginSet("c.m", "x")
  \/ \E p \in Paths \ Fields : DoValidatePath(p)
  \/ \E f \in Fields : DoValidate(f)
  \/ DoValidateAll
  \/ \E f \in Fields : DoSetInvalid(f, "")

OutsideSpec == OutsideInit /\ [][OutsideNext]_vars

\* ------------------------------------------------ the constructor
\* What a caller passes after the model: an origin or not, a default
\* object or not, the fields as an object, as an array of names or not at
\* all, an options object or not; field a declares one validation with the
\* rule args.rule, the message args.message ("" : none) and the default
\* args.dflt.
RuleRefs ==
  {"required", "email", "default", "opt", "nosuch",
   "<regex>", "<function>", "<number>"}
\* typeof validation.rule === 'string'
IsNamed(r) == r \in {"required", "email", "default", "opt", "nosuch"}
\* defaultValidations: the entry default has a message and no rule
DefaultTable ==
  [required |-> "<function>", email |-> "<regex>", default |-> Undefined]
\* the rules of the options object that is passed
OptionRules == [opt |-> "<regex>"]
\* the messages of the options object that is passed
OptionMessages == [required |-> "Required field."]
\* the messages of defaultValidations
DefaultMessages ==
  [required |-> "Required field", email |-> "Wrong email format.",
   default |-> DefaultMessage]
DefaultObject == [a |-> "da", b |-> "db"]
ArrayFields == <<"a", "c.n">>
SpecDefaults == Values \cup {Undefined}

CtorArgs ==
  {x \in [origin : Modes, defaults : BOOLEAN,
          fields : {"none", "array", "object"}, options : BOOLEAN,
          rule : RuleRefs, message : {"", "explicit"},
          dflt : SpecDefaults] :
     /\ x.defaults => x.fields # "none"
     /\ x.options => x.fields # "none"}

\* arguments after the model, by what the caller means them to be
ArgList(x) ==
  (IF x.origin # "none" THEN <<"model">> ELSE << >>)
    \o (IF x.defaults THEN <<"defaults">> ELSE << >>)
    \o (CASE x.fields = "array" -> <<"array">>
          [] x.fields = "object" -> <<"fields">>
          [] OTHER -> << >>)
    \o (IF x.options THEN <<"options">> ELSE << >>)

\* the keys of an argument read as a collection, in iteration order
KeyOrder(arg) ==
  CASE arg = "defaults" -> <<"a", "b">>
    [] arg = "fields" -> FieldOrder
    [] arg = "array" -> ArrayFields
    [] arg = "options" -> <<"rules", "messages">>
    [] OTHER -> << >>

Keys(arg) == {KeyOrder(arg)[i] : i \in 1..Len(KeyOrder(arg))}

\* the value an argument holds at a key: a primitive, or the name of the
\* object that is there
ValueAt(arg, k) ==
  CASE arg = "defaults" -> DefaultObject[k]
    [] arg = "fields" -> CASE k = "a" -> "<spec a>"
                           [] k = "b" -> "<spec b>"
                           [] OTHER -> "<spec c.n>"
    [] arg = "options" -> IF k = "rules" THEN "<rules>" ELSE "<messages>"
    [] OTHER -> Undefined

NoSpec == [default |-> Undefined, validations |-> "none", message |-> ""]

\* field.default and field.validations of the value at a key: only a field
\* spec has them
SpecOf(arg, k, x) ==
  IF arg # "fields" THEN NoSpec
  ELSE IF k = "a"
  THEN [default |-> x.dflt, validations |-> x.rule, message |-> x.message]
  ELSE [default |-> "", validations |-> "none", message |-> ""]

\* the arguments as the constructor takes them apart
ParseArgs(L) ==
  LET i == IF Len(L) > 0 /\ L[1] = "model" THEN 2 ELSE 1
      isDefault == i <= Len(L) /\ L[i] # "array" /\ i + 1 <= Len(L)
      j == IF isDefault THEN i + 1 ELSE i
  IN  [defaultObject |-> IF isDefault THEN L[i] ELSE "none",
       fields |-> IF j <= Len(L) THEN L[j] ELSE "none",
       options |-> IF j + 1 <= Len(L) THEN L[j + 1] ELSE "none"]

\* the default that the one object shared by the fields of an array ends with
SharedDefault(p) ==
  LET order == KeyOrder(p.defaultObject)
      hits == {i \in 1..Len(order) : order[i] \in Keys(p.fields)}
  IN  IF hits = {} THEN Undefined
      ELSE ValueAt(p.defaultObject,
                   order[CHOOSE i \in hits : \A h \in hits : h <= i])

\* this.fields once the default object is applied
ThisFields(p, x) ==
  [k \in Keys(p.fields) \cup Keys(p.defaultObject) |->
     IF p.fields = "array" /\ k \in Keys(p.fields)
     THEN [NoSpec EXCEPT !.default = SharedDefault(p)]
     ELSE LET spec == IF k \in Keys(p.fields) THEN SpecOf(p.fields, k, x)
                      ELSE NoSpec
          IN  IF k \in Keys(p.defaultObject)
              THEN [spec EXCEPT !.default = ValueAt(p.defaultObject, k)]
              ELSE spec]

\* "throw" : 'Rule: "..." is not available'
GetRule(ruleName, options) ==
  IF options = "options" /\ ruleName \in DOMAIN OptionRules
  THEN OptionRules[ruleName]
  ELSE IF ruleName \in DOMAIN DefaultTable THEN DefaultTable[ruleName]
  ELSE "throw"

GetMessage_tableFirst(ruleName, options) ==
  IF ruleName \in DOMAIN DefaultMessages THEN DefaultMessages[ruleName]
  ELSE IF options = "options" /\ ruleName \in DOMAIN OptionMessages
  THEN OptionMessages[ruleName]
  ELSE DefaultMessages["default"]

\* options.messages[ruleName], else the table's message for the name, else
\* the table's message of default
GetMessage(ruleName, options) ==
  IF options = "options" /\ ruleName \in DOMAIN OptionMessages
  THEN OptionMessages[ruleName]
  ELSE IF ruleName \in DOMAIN DefaultMessages THEN DefaultMessages[ruleName]
  ELSE DefaultMessages["default"]

\* validation.message once _assignValidations has run
AssignedMessage(spec, options) ==
  IF spec.message # "" THEN spec.message
  ELSE GetMessage(spec.validations, options)

\* the error _assignValidations throws for a rule, "none" if it does not
AssignValidations(r, options) ==
  LET rule == IF IsNamed(r) THEN GetRule(r, options) ELSE r
  IN  IF rule = "throw" THEN "Rule is not available"
      ELSE IF rule \notin {"<regex>", "<function>"}
      THEN "This rule is not a RegEx or a function"
      ELSE "none"

\* the paths a constructed validator can hold a value at
CtorPaths == Paths \cup {"rules", "messages"}

Thrown(x, e) == [phase |-> "thrown", args |-> x, error |-> e]

\* new Validator(model, ...ArgList(x))
Validator(x) ==
  LET L == ArgList(x)
      p == ParseArgs(L)
      fields == ThisFields(p, x)
      errors == {AssignValidations(fields[k].validations, p.options) :
                   k \in {q \in DOMAIN fields : fields[q].validations # "none"}}
                  \ {"none"}
  IN  IF Len(L) = 0
      THEN Thrown(x, "You must either specify an origin or a fields object")
      ELSE IF errors # {} THEN Thrown(x, CHOOSE e \in errors : TRUE)
      ELSE [phase |-> "built", args |-> x, error |-> "none",
            fields |-> DOMAIN fields,
            validated |-> {q \in DOMAIN fields :
                             fields[q].validations # "none"},
            message |-> [q \in {k \in DOMAIN fields :
                                  fields[k].validations # "none"} |->
                           AssignedMessage(fields[q], p.options)],
            recorded |-> << >>,
            value |->
              [q \in CtorPaths |->
                 IF /\ x.origin = "entity" /\ q \in Paths
                    /\ InitOrigin[q] # Undefined
                 THEN InitOrigin[q]
                 ELSE IF q \in DOMAIN fields THEN fields[q].default
                 ELSE Undefined]]

\* the caller holds a list of arguments
CtorInit == \E x \in CtorArgs : st = [phase |-> "arguments", args |-> x]
                                /\ ops = 0

DoConstruct ==
  /\ st.phase = "arguments"
  /\ Become(Validator(st.args))
  /\ UNCHANGED ops

\* the rule of a field of the validator reports invalid: _check pushes
\* validation.message
DoRuleFails ==
  /\ st.phase = "built"
  /\ \E f \in st.validated :
        Become([st EXCEPT !.phase = "failed",
                          !.recorded = Append(@, st.message[f])])
  /\ UNCHANGED ops

CtorNext == DoConstruct \/ DoRuleFails

CtorSpec == CtorInit /\ [][CtorNext]_vars

\* ====================================================== the properties
Validated == {f \in Fields : HasValidations(f)}

\* rule i of round sr of f settles in this step, the round being superseded
StaleSettle(f, sr) ==
  /\ sr < serial[f]
  /\ rounds'[f][sr].pending # rounds[f][sr].pending

\* the callback of round sr of f is invoked in this step
CallbackInvoked(f, sr) ==
  rounds[f][sr].result = "none" /\ rounds'[f][sr].result # "none"

\* the async.parallel callback of round sr of f runs in this step
JoinFires(f, sr) == ~rounds[f][sr].joined /\ rounds'[f][sr].joined

\* the callback of validateAll number k is invoked in this step
RunCallbackFires(k) == runs'[k].calls > runs[k].calls

\* C1: a rule of a superseded round that settles leaves isValid and
\* isInvalid of its field unchanged.
C1_StaleSettleKeepsValidity ==
  [][\A f \in Fields : \A sr \in 1..MaxOps :
       StaleSettle(f, sr) =>
         isValid'[f] = isValid[f] /\ isInvalid'[f] = isInvalid[f]]_vars

\* C2: a rule of a superseded round that settles never appends to messages
\* and never sets invalidAt.
C2_StaleSettleKeepsMessages ==
  [][\A f \in Fields : \A sr \in 1..MaxOps :
       StaleSettle(f, sr) =>
         messages'[f] = messages[f] /\ invalidAt'[f] = invalidAt[f]]_vars

\* a superseded round was ended by a rule that settled valid, but stale
C2_Witness ==
  \E f \in Fields : \E sr \in 1..MaxOps :
     /\ sr < serial[f]
     /\ rounds[f][sr].result = "false"
     /\ rounds[f][sr].failed = {}

\* C3: every validate call, direct or through validateAll or commit,
\* strictly increases the serial of the field, and no step decreases a serial.
C3_SerialIncreases ==
  [][/\ \A f \in Fields : serial'[f] >= serial[f]
     /\ \A f \in Fields : DoValidate(f) => serial'[f] > serial[f]
     /\ (DoValidateAll \/ DoCommit(FALSE)) =>
           \A f \in Validated : serial'[f] > serial[f]]_vars

\* a field validated directly and then once more through validateAll or
\* commit
C3_Witness ==
  \E f \in Validated : serial[f] = 2 /\ rounds[f][2].owner > 0

RECURSIVE DeclMessages(_, _, _)
DeclMessages(f, failed, i) ==
  IF i > Len(Validations[f]) THEN << >>
  ELSE IF i \in failed
       THEN <<Validations[f][i].message>> \o DeclMessages(f, failed, i + 1)
       ELSE DeclMessages(f, failed, i + 1)

RuleMessages(f) == {Validations[f][i].message : i \in RuleIdx(f)}

\* C4: once every rule of the current round of a field has settled, its
\* messages are those of the failed rules, in declaration order.
C4_MessagesInDeclarationOrder ==
  \A f \in Validated :
     LET sr == serial[f]
     IN  (/\ sr > 0
          /\ rounds[f][sr].pending = {}
          /\ \A j \in 1..Len(messages[f]) : messages[f][j] \in RuleMessages(f))
         => messages[f] = DeclMessages(f, rounds[f][sr].failed, 1)

\* C5 as stated: a round writes the validity only once all its rules have
\* settled, and writes the conjunction of their outcomes.
C5_WrittenAfterAllSettled ==
  [][\A f \in Validated : \A sr \in 1..MaxOps :
       JoinFires(f, sr) =>
         /\ rounds'[f][sr].pending = {}
         /\ isValid'[f] = (rounds'[f][sr].failed = {})
         /\ isInvalid'[f] = ~isValid'[f]]_vars

\* C5 amended: a round writes valid only once all its rules have settled
\* valid; it writes invalid at the first rule that settles invalid or
\* settles after the round was superseded, whatever is still outstanding.
C5_WrittenAtFirstFailure ==
  [][\A f \in Validated : \A sr \in 1..MaxOps :
       JoinFires(f, sr) =>
         /\ rounds'[f][sr].result = "true" =>
               /\ rounds'[f][sr].pending = {}
               /\ rounds'[f][sr].failed = {}
               /\ isValid'[f] /\ ~isInvalid'[f]
         /\ rounds'[f][sr].result = "false" =>
               /\ rounds'[f][sr].failed # {} \/ sr < serial[f]
               /\ isInvalid'[f] /\ ~isValid'[f]]_vars

\* a round wrote invalid while one of its rules was still outstanding
C5_Witness ==
  \E f \in Validated : \E sr \in 1..MaxOps :
     /\ rounds[f][sr].result = "false"
     /\ rounds[f][sr].pending # {}
     /\ rounds[f][sr].failed # {}
     /\ isInvalid[f]

\* C6: when the callback of validate(p) is invoked, isValid == !isInvalid
\* and messages is empty exactly when isValid.
C6_ConsistentAtCallback ==
  [][\A f \in Validated : \A sr \in 1..MaxOps :
       CallbackInvoked(f, sr) =>
         /\ isValid'[f] = ~isInvalid'[f]
         /\ (messages'[f] = << >>) = isValid'[f]]_vars

\* C7: validate(p) of a field without validations delivers true and leaves
\* messages, isValid and isInvalid as they were; validateAll starts no round
\* for it.
C7_NoValidationsNoEffect ==
  [][\A f \in Fields \ Validated :
       /\ DoValidate(f) =>
            /\ rounds'[f][serial'[f]].result = "true"
            /\ messages'[f] = messages[f]
            /\ isValid'[f] = isValid[f]
            /\ isInvalid'[f] = isInvalid[f]
       /\ DoValidateAll => serial'[f] = serial[f]]_vars

\* C8: isValid and isInvalid of a field with validations are never both
\* true; they are both false exactly while no validity was written since the
\* last setup, and otherwise isInvalid == !isValid.
C8_ValidityFlags ==
  \A f \in Validated :
     /\ ~(isValid[f] /\ isInvalid[f])
     /\ touched[f] => isInvalid[f] = ~isValid[f]
     /\ ~touched[f] => ~isValid[f] /\ ~isInvalid[f]

\* a field whose round is in flight or was reset, next to a field that a
\* round found valid
C8_Witness ==
  \E f, g \in Validated :
     /\ serial[f] > 0 /\ ~touched[f] /\ ~isValid[f] /\ ~isInvalid[f]
     /\ touched[g] /\ isValid[g] /\ ~isInvalid[g]

\* the round that validateAll number k started for field f
RunRound(k, f) ==
  CHOOSE sr \in 1..MaxOps : rounds'[f][sr].owner = k

\* C9 as stated: the callback of validateAll is invoked only after every
\* round it started has settled, with true iff every such field is valid.
C9_CallbackAfterAllRounds ==
  [][\A k \in 1..MaxOps :
       RunCallbackFires(k) =>
         /\ \A f \in Validated : rounds'[f][RunRound(k, f)].joined
         /\ (runs'[k].result = "true") = (\A f \in Validated : isValid'[f])]_vars

\* C9 amended: validateAll starts a round for exactly the fields with
\* validations; its callback gets true only after every one of those rounds
\* has delivered true, and false as soon as one of them delivers false.
C9_CallbackAtFirstInvalid ==
  [][/\ DoValidateAll =>
          \A f \in Fields :
             serial'[f] = IF f \in Validated THEN serial[f] + 1 ELSE serial[f]
     /\ \A k \in 1..MaxOps :
          RunCallbackFires(k) =>
            /\ runs'[k].result = "true" =>
                  \A f \in Validated :
                     rounds'[f][RunRound(k, f)].result = "true"
            /\ runs'[k].result = "false" =>
                  \E f \in Validated :
                     /\ rounds'[f][RunRound(k, f)].result = "false"
                     /\ ~rounds[f][RunRound(k, f)].joined]_vars

\* validateAll has reported false while a round it started is in flight
C9_Witness ==
  \E k \in 1..MaxOps : \E f \in Validated : \E sr \in 1..MaxOps :
     /\ runs[k].result = "false"
     /\ rounds[f][sr].owner = k
     /\ ~rounds[f][sr].joined
     /\ rounds[f][sr].pending # {}

\* C10: the callback of every validateAll is eventually invoked, and is
\* invoked once, also when a round it started was superseded.
C10_RunCallbackOnce ==
  /\ [](\A k \in 1..MaxOps : runs[k].calls <= 1)
  /\ (\E k \in 1..MaxOps : nruns >= k /\ runs[k].calls = 0)
        ~> (\A k \in 1..MaxOps : nruns >= k => runs[k].calls = 1)

\* validateAll has called back after a round it started was superseded
C10_Witness ==
  \E k \in 1..MaxOps : \E f \in Validated : \E sr \in 1..MaxOps :
     /\ runs[k].calls = 1
     /\ rounds[f][sr].owner = k
     /\ sr < serial[f]
     /\ rounds[f][sr].result = "false"
     /\ rounds[f][sr].failed = {}

\* ------------------------------------------------ commit and the origin
\* a commit writes the origin in this step
CommitWrites ==
  \/ DoCommit(TRUE) /\ mode # "none"
  \/ \E k \in 1..MaxOps :
        runs'[k].commit /\ RunCallbackFires(k) /\ runs'[k].result = "true"

C12_ForceCommit ==
  [][(DoCommit(TRUE) /\ mode # "none") =>
        /\ \A p \in Fields : origin'[p] = value[p]
        /\ serial' = serial /\ rounds' = rounds /\ nruns' = nruns
        /\ isValid' = isValid /\ isInvalid' = isInvalid
        /\ messages' = messages /\ validating' = validating
        /\ CommitToModel(st').origin = origin']_vars

\* the value of a field that validateAll found invalid was written to the
\* origin
C12_Witness ==
  \E f \in Validated :
     /\ isInvalid[f]
     /\ origin[f] = value[f]
     /\ origin[f] # InitStore(mode).origin[f]

\* C13: a commit never writes id.value to the origin; the id of the origin
\* changes only when commit creates the entity, to the id reserved for it,
\* while the values of the fields are written.
C13_IdNotCommitted ==
  [][/\ origin'["id"] # origin["id"] =>
          origin["id"] = Undefined /\ origin'["id"] = OriginId
     /\ CommitWrites =>
          /\ origin'["id"] = OriginId
          /\ \A p \in Fields : origin'[p] = value'[p]]_vars

\* a commit wrote the origin while id.value held another id
C13_Witness ==
  /\ committedId \in IdValues
  /\ origin["id"] = OriginId
  /\ value["id"] \in IdValues

\* ------------------------------------------------------ the aggregates
\* the declared fields of group g
GroupFields(g) == {f \in Fields : GroupOf(f) = g}

\* C14: groups[g].isValid is true exactly when no field of group g has
\* isInvalid true.
C14_GroupValidIffNoneInvalid ==
  \A g \in Groups :
     (groups[g] = "true") = (\A f \in GroupFields(g) : ~isInvalid[f])

RequiredFields ==
  {f \in Fields : \E i \in RuleIdx(f) : Validations[f][i].kind = "required"}

\* C16: the group of a required field with an empty value reads false right
\* after construction and after a validateAll.
C16_RequiredEmptyGroupFalse ==
  /\ [](ops = 0 =>
          \A f \in RequiredFields :
             value[f] = "" => groups[GroupOf(f)] = "false")
  /\ [][DoValidateAll =>
          \A f \in RequiredFields :
             value[f] = "" => groups'[GroupOf(f)] = "false"]_vars

\* C17: hasInvalidFields is true exactly when some field, at any depth, has
\* isInvalid true.
C17_HasInvalidFields ==
  hasInvalidFields = (\E f \in Fields : isInvalid[f])

\* ------------------------------------------------- the change tracking
\* C18: hasChangedFields is true exactly when some leaf, at any depth, has
\* hasChanged true.
C18_HasChangedFields ==
  hasChangedFields = (\E p \in Paths : hasChanged[p])

\* only the nested field has changed
C18_Witness ==
  /\ hasChangedFields
  /\ \A p \in Paths : hasChanged[p] = (p = "c.n")
  /\ value["c.n"] # origin["c.n"]

\* the baseline of a path as the documentation has it: the origin's value,
\* or the declared default when there is no origin
Baseline(p) ==
  IF mode # "none" THEN origin[p]
  ELSE IF p \in Fields THEN FieldDefault[p] ELSE Undefined

ValuesOf(p) == IF p = "id" THEN IdValues ELSE Values

\* C19: after a value is written, hasChanged of its field is true exactly
\* when the value differs from the baseline.
C19_HasChangedIsDiffFromBaseline ==
  [][\A p \in Paths : \A v \in ValuesOf(p) :
       DoSetValue(p, v) => hasChanged'[p] = (value'[p] # Baseline(p))]_vars

\* C20: reset() leaves every value equal to its baseline, every hasChanged
\* false and hasChangedFields false.
C20_ResetRestoresBaseline ==
  [][DoReset =>
       /\ \A p \in Paths : value'[p] = Baseline(p) /\ ~hasChanged'[p]
       /\ ~hasChangedFields']_vars

\* ------------------------------------------------- forced invalidity
\* C23: setInvalid(p, m) runs no rule and leaves p invalid, with m or the
\* default message appended to its messages, its group not valid and
\* hasInvalidFields true.
C23_SetInvalid ==
  [][\A f \in Fields : \A m \in {"", "forced"} :
       DoSetInvalid(f, m) =>
         /\ isInvalid'[f] /\ ~isValid'[f]
         /\ messages'[f] =
               Append(messages[f], IF m = "" THEN DefaultMessage ELSE m)
         /\ groups'[GroupOf(f)] = "false"
         /\ hasInvalidFields'
         /\ serial' = serial /\ rounds' = rounds]_vars

\* ------------------------------------------------- the validating flag
\* the round of f that is current
CurrentRound(f) == rounds[f][serial[f]]

\* C24 as stated: while a rule of the current round of p is outstanding and
\* no newer round is started, validating stays true.
C24_ValidatingWhileOutstanding ==
  [][\A f \in Validated :
       (/\ serial[f] > 0
        /\ validating[f]
        /\ serial'[f] = serial[f]
        /\ rounds'[f][serial[f]].pending # {}) => validating'[f]]_vars

\* C24 amended: while a rule of the current round of p is outstanding, no
\* rule of that round has settled invalid and no newer round is started,
\* validating is and stays true; the first rule that settles invalid clears
\* it whatever is outstanding.
C24_ValidatingUntilFirstFailure ==
  /\ [](\A f \in Validated :
          (/\ serial[f] > 0
           /\ CurrentRound(f).pending # {}
           /\ CurrentRound(f).failed = {}) => validating[f])
  /\ [][\A f \in Validated :
          (/\ serial[f] > 0
           /\ serial'[f] = serial[f]
           /\ CurrentRound(f).failed = {}
           /\ rounds'[f][serial[f]].failed # {}) => ~validating'[f]]_vars

\* the current round of a field has a rule outstanding that never settled,
\* one rule settled valid, and the field is still validating
C24_Witness ==
  \E f \in Validated :
     /\ serial[f] > 0
     /\ validating[f]
     /\ CurrentRound(f).failed = {}
     /\ CurrentRound(f).pending # {}
     /\ CurrentRound(f).pending # RuleIdx(f)
     /\ \E i \in RuleIdx(f) \ CurrentRound(f).pending :
           ~IsSync(Validations[f][i])

\* C25: a superseded round that completes leaves validating as it is; only
\* the completion of the round whose serial is the current one clears it.
C25_OnlyCurrentRoundClears ==
  [][\A f \in Fields :
       /\ (validating[f] /\ ~validating'[f]) =>
             /\ serial'[f] > 0
             /\ JoinFires(f, serial'[f])
       /\ \A sr \in 1..MaxOps :
             (JoinFires(f, sr) /\ sr < serial'[f]) =>
                validating'[f] = validating[f]]_vars

\* a superseded round has completed while the newer round is in flight and
\* the field is validating
C25_Witness ==
  \E f \in Validated : \E sr \in 1..MaxOps :
     /\ sr < serial[f]
     /\ rounds[f][sr].joined
     /\ ~CurrentRound(f).joined
     /\ validating[f]

\* C26: validating is true only while the current round of the field has
\* not delivered its result.
C26_ValidatingOnlyInFlight ==
  \A f \in Fields :
     validating[f] => serial[f] > 0 /\ CurrentRound(f).result = "none"

\* ------------------------------------------------- stale results
\* C30: a superseded round none of whose rules reported invalid never
\* delivers false, neither to the callback of validate nor to that of the
\* validateAll or commit that started it.
C30_StaleDeliversNothing ==
  [][\A f \in Validated : \A sr \in 1..MaxOps :
       (/\ CallbackInvoked(f, sr)
        /\ sr < serial[f]
        /\ rounds'[f][sr].failed = {}) =>
          /\ rounds'[f][sr].result # "false"
          /\ \A k \in 1..MaxOps :
                RunCallbackFires(k) => runs'[k].result # "false"]_vars

\* ------------------------------------------------- validity after setup
\* C28: right after construction every field that declares validations has
\* isValid false and isInvalid false whatever its value, and isValid
\* becomes true only in a step in which a validation round of the field
\* completes valid.
C28_NotValidUntilValidated ==
  /\ [](ops = 0 =>
          \A f \in Validated : ~isValid[f] /\ ~isInvalid[f])
  /\ [][\A f \in Validated :
          (~isValid[f] /\ isValid'[f]) =>
             \E sr \in 1..MaxOps :
                JoinFires(f, sr) /\ rounds'[f][sr].result = "true"]_vars

\* a validator just constructed on an origin whose value passes the first
\* rule of a field, the field being neither valid nor invalid
C28_Witness ==
  \E f \in Validated :
     /\ ops = 0
     /\ mode = "entity"
     /\ RuleTest(Validations[f][1].kind, value[f])
     /\ ~isValid[f] /\ ~isInvalid[f]

\* ------------------------------------------------- the baseline
\* C29: the baseline that a later hasChanged comparison of a path uses
\* changes in no step other than reset(): a write to the origin leaves it
\* as it was at setup.
C29_BaselineFixedAtSetup ==
  [][(\E p \in Paths : StartValue(st', p) # StartValue(st, p)) =>
        DoReset]_vars

\* ------------------------------------------------- getValues
\* the keys of the origin entity
OriginKeys == {p \in Paths : origin[p] # Undefined}

\* the origin is the one that setup read: commit created no entity since
OriginAsAtSetup == mode = "entity" \/ committedId = "none"

\* C22 as stated: with an origin, getValues() is the origin's tree with the
\* value of every declared path replaced by the field's current value; the
\* keys that only the origin has keep the origin's value, and no
\* bookkeeping key is in it.
C22_GetValuesReplacesDeclared ==
  (mode # "none" /\ OriginAsAtSetup) =>
     GetValues(st, FALSE) =
        [p \in Fields \cup OriginKeys |->
           IF p \in Fields THEN value[p] ELSE origin[p]]

\* the paths whose value the form wrote to something else than the origin's
Written == {p \in Paths : hasChanged[p]}

\* C22 amended: with an origin, getValues() is the origin's tree with the
\* value of every path the validator holds, declared or copied from the
\* origin, replaced by its current value: a key that only the origin has
\* keeps the origin's value, at any depth, until the form writes it; no
\* bookkeeping key is in it.
C22_GetValuesReplacesHeld ==
  (mode # "none" /\ OriginAsAtSetup) =>
     GetValues(st, FALSE) =
        [p \in Fields \cup OriginKeys \cup Written |->
           IF p \in Fields \cup Written THEN value[p] ELSE origin[p]]

\* the form wrote a declared field and the id, next to the nested key c.m
\* that only the origin has
C22_Witness ==
  /\ mode = "entity"
  /\ value["c.n"] # origin["c.n"]
  /\ value["id"] # origin["id"]
  /\ GetValues(st, FALSE)["c.m"] = origin["c.m"]

\* ------------------------------------------------- construction
\* the fields that the caller declares
Declared(x) ==
  CASE x.fields = "object" -> Fields
    [] x.fields = "array" -> Keys("array")
    [] OTHER -> {}

\* the default that the caller's field spec gives a field
SpecDefault(x, f) ==
  IF x.fields = "object" THEN SpecOf("fields", f, x).default ELSE Undefined

\* the origin the caller passes has a value at the path
OriginHas(x, q) == x.origin = "entity" /\ InitOrigin[q] # Undefined

\* C21: after construction the value of a declared field is the origin's
\* when the origin has one, otherwise the default object's entry when a
\* default object was passed and has one, otherwise the spec's default;
\* an origin key outside the field tree holds the origin's value.
C21_ValueAfterConstruction ==
  st.phase = "built" =>
     /\ \A f \in Declared(st.args) :
           st.value[f] =
              IF OriginHas(st.args, f) THEN InitOrigin[f]
              ELSE IF st.args.defaults /\ f \in DOMAIN DefaultObject
                   THEN DefaultObject[f]
              ELSE SpecDefault(st.args, f)
     /\ \A q \in Paths \ Declared(st.args) :
           OriginHas(st.args, q) => st.value[q] = InitOrigin[q]

\* the rule the caller's arguments resolve a rule reference to
Resolved(x) ==
  IF ~IsNamed(x.rule) THEN x.rule
  ELSE IF x.options /\ x.rule \in DOMAIN OptionRules THEN OptionRules[x.rule]
  ELSE IF x.rule \in DOMAIN DefaultTable THEN DefaultTable[x.rule]
  ELSE "unresolved"

\* the configurations for which construction is to throw
Misconfigured(x) ==
  \/ x.origin = "none" /\ x.fields = "none"
  \/ x.fields = "object" /\ Resolved(x) \notin {"<regex>", "<function>"}

\* C27: construction throws when neither an origin nor fields is passed,
\* when a named rule resolves neither in options.rules nor in the default
\* table, and when a resolved rule is neither a regular expression nor a
\* function: no validator is built from such arguments.
C27_ConstructionThrows ==
  st.phase = "built" => ~Misconfigured(st.args)

\* ------------------------------------------------- other fields
\* validate(f) is called in this step: its serial grows and no validateAll
\* is started
ValidateStarts(f) == serial'[f] = serial[f] + 1 /\ nruns' = nruns

\* a rule of a round of f that was in flight settles in this step
RuleSettlesOf(f) ==
  /\ serial'[f] = serial[f]
  /\ \E sr \in 1..MaxOps : rounds'[f][sr].pending # rounds[f][sr].pending

\* C31: a step that starts validate(p), or in which a rule of p settles,
\* leaves the value, serial, isValid, isInvalid, messages and validating of
\* every other field as they are, and the rounds of every other field too.
C31_OtherFieldsUntouched ==
  [][\A f \in Fields :
       (ValidateStarts(f) \/ RuleSettlesOf(f)) =>
          \A q \in Fields \ {f} :
             /\ value'[q] = value[q]
             /\ serial'[q] = serial[q]
             /\ isValid'[q] = isValid[q]
             /\ isInvalid'[q] = isInvalid[q]
             /\ messages'[q] = messages[q]
             /\ validating'[q] = validating[q]
             /\ rounds'[q] = rounds[q]]_vars

\* a round of one field is in flight while a round of another field was
\* started and has completed
C31_Witness ==
  \E f \in Validated : \E q \in Validated \ {f} :
     /\ serial[q] > 0
     /\ CurrentRound(q).pending # {}
     /\ ~CurrentRound(q).joined
     /\ validating[q]
     /\ serial[f] > 0
     /\ CurrentRound(f).joined

\* ------------------------------------------------- commit and the origin
\* C32: a commit onto an existing entity leaves every origin path that is
\* not in the projected values as it was.
C32_CommitKeepsOtherKeys ==
  [][(CommitWrites /\ origin["id"] # Undefined) =>
        \A p \in Paths \ DOMAIN GetValues(st, TRUE) :
           origin'[p] = origin[p]]_vars

\* ------------------------------------------------- validation and values
\* validateAll is called in this step: a run that is not commit's starts
ValidateAllStarts == nruns' = nruns + 1 /\ ~runs'[nruns'].commit

\* C40: a step of validate, validateAll or setInvalid, on a declared field
\* or on any other path, leaves getValues() as it was.
C40_ValidationKeepsValues ==
  [][(\/ \E f \in Fields : ValidateStarts(f)
      \/ \E p \in Paths \ Fields : DoValidatePath(p)
      \/ ValidateAllStarts
      \/ \E f \in Fields : DoSetInvalid(f, "")) =>
        GetValues(st', FALSE) = GetValues(st, FALSE)]_vars

\* ------------------------------------------------- a new entity
\* C33: with an origin that names a collection, the entity is created by
\* the first commit that writes, once, with the id chosen at construction;
\* every later commit that writes updates that entity and keeps its id.
C33_OneEntityCreated ==
  /\ [](mode = "new" =>
          /\ adds <= 1
          /\ (adds = 0) = (origin["id"] = Undefined)
          /\ adds = 1 => origin["id"] = OriginId
          /\ adds = 0 => setEachs = 0)
  /\ [][(mode = "new" /\ CommitWrites) =>
           IF adds = 0
           THEN adds' = 1 /\ setEachs' = setEachs
           ELSE adds' = adds /\ setEachs' = setEachs + 1]_vars

\* the entity was created by one commit and updated by a later one
C33_Witness ==
  /\ mode = "new"
  /\ adds = 1
  /\ setEachs > 0
  /\ origin["id"] = OriginId

\* ------------------------------------------------- reset
\* the store of a validator constructed now over the origin and the fields
\* of s
FreshOver(s) ==
  [InitStore(s.mode) EXCEPT
     !.origin = s.origin,
     !.value = [p \in Paths |->
                  IF s.mode # "none" /\ s.origin[p] # Undefined
                  THEN s.origin[p]
                  ELSE IF p \in Fields THEN FieldDefault[p] ELSE Undefined]]

\* C34: after reset() the value, isValid, isInvalid, messages, invalidAt
\* and hasChanged of every field, hasInvalidFields, hasChangedFields and
\* the validity of every group are those of a validator constructed now
\* over the same origin and fields.
C34_ResetIsFreshConstruction ==
  [][DoReset =>
       LET fresh == FreshOver(st)
       IN  /\ value' = fresh.value
           /\ isValid' = fresh.isValid
           /\ isInvalid' = fresh.isInvalid
           /\ messages' = fresh.messages
           /\ invalidAt' = fresh.invalidAt
           /\ hasChanged' = fresh.hasChanged
           /\ hasInvalidFields' = fresh.hasInvalidFields
           /\ hasChangedFields' = fresh.hasChangedFields
           /\ groups' = fresh.groups]_vars

\* ------------------------------------------------- commit and validation
\* C36: when commit() without force writes the origin, the value written
\* for a field passes the rules of the field whose outcome depends on the
\* value alone.
C36_CommitWritesValidatedValues ==
  [][\A k \in 1..MaxOps :
       (/\ runs'[k].commit
        /\ RunCallbackFires(k)
        /\ runs'[k].result = "true") =>
          \A f \in Validated : \A i \in RuleIdx(f) :
             IsSync(Validations[f][i]) =>
                RuleTest(Validations[f][i].kind, origin'[f])]_vars

\* ------------------------------------------------- forced invalidity
\* setInvalid(f) left its message since the messages of f were last cleared
HasForced(f) ==
  \E i \in 1..Len(messages[f]) : messages[f][i] \in {DefaultMessage, "forced"}

\* C37: a field that setInvalid made invalid stays invalid in every step
\* that is not a call of validate on it, of validateAll, of commit or of
\* reset.
C37_ForcedInvalidStays ==
  [][\A f \in Fields :
       (/\ isInvalid[f]
        /\ HasForced(f)
        /\ serial'[f] = serial[f]
        /\ ~DoReset) => (isInvalid'[f] /\ ~isValid'[f])]_vars

\* ------------------------------------------------- reset and rounds
\* C38: a rule of a round that was started before the last reset() settles
\* without changing isValid, isInvalid, messages or invalidAt of any field.
C38_ResetDropsOldRounds ==
  [][\A f \in Validated : \A sr \in 1..MaxOps :
       (/\ sr <= setupSerial[f]
        /\ serial'[f] = serial[f]
        /\ rounds'[f][sr].pending # rounds[f][sr].pending) =>
          /\ isValid' = isValid
          /\ isInvalid' = isInvalid
          /\ messages' = messages
          /\ invalidAt' = invalidAt]_vars

\* ------------------------------------------------- commit's callback
\* the times the callback of commit was invoked: only the callback that
\* commit hands to validateAll invokes it
RECURSIVE CommitCallbackCalls(_, _)
CommitCallbackCalls(s, k) ==
  IF k = 0 THEN 0
  ELSE (IF s.runs[k].commit THEN s.runs[k].calls ELSE 0)
         + CommitCallbackCalls(s, k - 1)

\* C39: with an origin, a forced commit invokes its callback in the call,
\* and the callback of no commit is invoked more than once.
C39_CommitCallsBack ==
  /\ [](\A k \in 1..MaxOps : runs[k].commit => runs[k].calls <= 1)
  /\ [][(DoCommit(TRUE) /\ mode # "none") =>
          CommitCallbackCalls(st', MaxOps)
             = CommitCallbackCalls(st, MaxOps) + 1]_vars

\* ------------------------------------------------- messages
\* the message the caller's arguments give the rule of field a
ExpectedMessage(x) ==
  IF x.message # "" THEN x.message
  ELSE IF IsNamed(x.rule) /\ x.options /\ x.rule \in DOMAIN OptionMessages
  THEN OptionMessages[x.rule]
  ELSE IF IsNamed(x.rule) /\ x.rule \in DOMAIN DefaultMessages
  THEN DefaultMessages[x.rule]
  ELSE DefaultMessage

\* C35: the message recorded for a failed rule is the validation's own
\* message if it has one, else the message of options for the rule's name,
\* else the default table's message for that name, else the table's
\* generic message.
C35_MessageResolution ==
  st.phase = "failed" => st.recorded = <<ExpectedMessage(st.args)>>

\* a rule named required, without a message of its own, failed in a
\* validator whose options have a message for that name
C35_Witness ==
  /\ st.phase = "failed"
  /\ st.args.rule = "required"
  /\ st.args.message = ""
  /\ st.args.options
  /\ st.recorded = <<OptionMessages["required"]>>

====
